---- MODULE Spec2Model ----
(***************************************************************************)
(* Order tracker backend: the order store, its status-history log, the     *)
(* authorization gate and the notification preference store, as a state    *)
(* machine over a PostgreSQL datastore (READ COMMITTED, the engine's       *)
(* default).  Every request runs in its own session: the statements of a   *)
(* handler are separate steps, pending writes stay private to the session  *)
(* until session_scope commits, and are dropped when it rolls back.        *)
(***************************************************************************)
EXTENDS Integers, Sequences, FiniteSets, TLC

\* ---------------------------------------------------------------- bounds
MaxOrderId == 2
MaxHistId == 3
MaxClock == 1
MaxUserId == 3

\* ------------------------------------------------------------- constants
Null == "NULL"
NullId == 0

Procs == {"w1", "w2"}

UserRole == {"customer", "admin"}
OrderStatus == {"created", "processing", "shipped", "delivered", "cancelled"}
NotificationChannel == {"email", "sms", "push"}

\* request inputs
UserIds == {1, 2, 3}
OrderNumbers == {"ORD-1", "ORD-2"}
Titles == {"Widget"}
NewTitles == {Null, "Gadget"}
Descriptions == {Null}
NewDescriptions == {Null, "blue"}
StatusInputs == {"created", "shipped", "delivered"}
Notes == {Null, "left warehouse"}

NoCredentials == [sub |-> NullId, role |-> Null, valid |-> FALSE, present |-> FALSE]
BadToken == [sub |-> NullId, role |-> Null, valid |-> FALSE, present |-> TRUE]
\* create_access_token: a signed token carrying the subject and a role claim
create_access_token(subject, role) ==
    [sub |-> subject, role |-> role, valid |-> TRUE, present |-> TRUE]
Credentials ==
    {NoCredentials, BadToken, create_access_token(1, "admin"),
     create_access_token(2, "customer"), create_access_token(3, "customer")}

AdminOnly == {"create_order", "delete_order", "update_status"}

VARIABLES
    users,        \* committed rows of table users
    prefs,        \* committed rows of table notification_preferences
    orders,       \* committed rows of table orders
    history,      \* committed rows of table order_status_history
    nextUserId,   \* sequence behind users.id
    nextOrderId,  \* sequence behind orders.id
    nextHistId,   \* sequence behind order_status_history.id
    clock,        \* the datastore's clock
    pc,           \* per worker: the statement its request is at
    req,          \* per worker: the request being served
    sess,         \* per worker: the session (loaded objects, pending writes)
    resp          \* per worker: the response of the request

vars == <<users, prefs, orders, history, nextUserId, nextOrderId, nextHistId, clock,
          pc, req, sess, resp>>

db == <<users, prefs, orders, history>>

\* ------------------------------------------------------------ row makers
User(id, email, role, is_active) ==
    [id |-> id, email |-> email, role |-> role, is_active |-> is_active]

NotificationPreference(user_id, enabled, channel, email, phone, push_token) ==
    [user_id |-> user_id, enabled |-> enabled, channel |-> channel,
     email |-> email, phone |-> phone, push_token |-> push_token]

\* an order row whose status column defaults to something else than created
Order_DefaultProcessing(id, order_number, user_id, title, description, at) ==
    [id |-> id, order_number |-> order_number, user_id |-> user_id,
     title |-> title, description |-> description,
     current_status |-> "processing", created_at |-> at, updated_at |-> at]

Order(id, order_number, user_id, title, description, at) ==
    [id |-> id, order_number |-> order_number, user_id |-> user_id,
     title |-> title, description |-> description,
     current_status |-> "created", created_at |-> at, updated_at |-> at]

OrderStatusHistory(id, order_id, old_status, new_status, changed_by, note, at) ==
    [id |-> id, order_id |-> order_id, old_status |-> old_status,
     new_status |-> new_status, changed_by_user_id |-> changed_by,
     note |-> note, changed_at |-> at]

\* ------------------------------------------------------- requests, sessions
NoReq ==
    [kind |-> "none", order_id |-> NullId, order_number |-> Null,
     user_id |-> NullId, title |-> Null, description |-> Null,
     new_status |-> Null, note |-> Null, pref |-> {}, email |-> Null, role |-> Null,
     cred |-> NoCredentials]

NoUpdate == [id |-> NullId, current_status |-> Null, title |-> Null, description |-> Null]

NoSession ==
    [user |-> {}, now |-> 0, obj |-> {}, old |-> Null,
     ins_order |-> {}, ins_hist |-> {}, upd |-> NoUpdate, del |-> {},
     pref |-> {}, ins_pref |-> {}, upd_pref |-> {}, ins_user |-> {}]

NoResp ==
    [status |-> 0, detail |-> Null, order |-> {}, history |-> <<>>, list |-> <<>>,
     user |-> {}, pref |-> {}]

HTTPException(status, detail) == [NoResp EXCEPT !.status = status, !.detail = detail]

Others(p) == Procs \ {p}
InFlight(p) == pc[p] \notin {"idle", "commit", "rollback"}

\* ------------------------------------------------------------------ Init
Init ==
    /\ users = {User(1, "admin@x.io", "admin", TRUE), User(2, "bob@x.io", "customer", TRUE)}
    /\ prefs = {NotificationPreference(1, TRUE, "email", "admin@x.io", Null, Null),
                NotificationPreference(2, TRUE, "email", "bob@x.io", Null, Null)}
    /\ orders = {}
    /\ history = {}
    /\ nextUserId = 3
    /\ nextOrderId = 1
    /\ nextHistId = 1
    /\ clock = 0
    /\ pc = [p \in Procs |-> "idle"]
    /\ req = [p \in Procs |-> NoReq]
    /\ sess = [p \in Procs |-> NoSession]
    /\ resp = [p \in Procs |-> NoResp]

\* ------------------------------------------------------ authorization gate
\* a gate that looks the user up and forgets is_active
get_current_user_IgnoresActive(cred) ==
    IF ~cred.present THEN [ok |-> FALSE, user |-> {}, error |-> HTTPException(401, "Not authenticated")]
    ELSE IF ~cred.valid THEN [ok |-> FALSE, user |-> {}, error |-> HTTPException(401, "Invalid token")]
    ELSE LET found == {u \in users : u.id = cred.sub}
         IN IF found = {}
            THEN [ok |-> FALSE, user |-> {}, error |-> HTTPException(401, "User not found or inactive")]
            ELSE [ok |-> TRUE, user |-> found, error |-> NoResp]

\* a gate that takes the role from the token's claim
get_current_user_TokenRole(cred) ==
    IF ~cred.present THEN [ok |-> FALSE, user |-> {}, error |-> HTTPException(401, "Not authenticated")]
    ELSE IF ~cred.valid THEN [ok |-> FALSE, user |-> {}, error |-> HTTPException(401, "Invalid token")]
    ELSE LET found == {u \in users : u.id = cred.sub}
         IN IF found = {} \/ \E u \in found : ~u.is_active
            THEN [ok |-> FALSE, user |-> {}, error |-> HTTPException(401, "User not found or inactive")]
            ELSE [ok |-> TRUE, user |-> {[u EXCEPT !.role = cred.role] : u \in found},
                  error |-> NoResp]

\* get_current_user: the acting user, or the 401 the gate raises
get_current_user(cred) ==
    IF ~cred.present THEN [ok |-> FALSE, user |-> {}, error |-> HTTPException(401, "Not authenticated")]
    ELSE IF ~cred.valid THEN [ok |-> FALSE, user |-> {}, error |-> HTTPException(401, "Invalid token")]
    ELSE LET found == {u \in users : u.id = cred.sub}
         IN IF found = {} \/ \E u \in found : ~u.is_active
            THEN [ok |-> FALSE, user |-> {}, error |-> HTTPException(401, "User not found or inactive")]
            ELSE [ok |-> TRUE, user |-> found, error |-> NoResp]

\* require_admin, composed on get_current_user
require_admin(auth) ==
    IF ~auth.ok THEN auth
    ELSE IF \E u \in auth.user : u.role # "admin"
         THEN [ok |-> FALSE, user |-> {}, error |-> HTTPException(403, "Admin role required")]
         ELSE auth

\* signup depends on get_db alone
Open == [ok |-> TRUE, user |-> {}, error |-> NoResp]

\* delete_order left on get_current_user alone
Depends_DeleteUngated(kind, cred) ==
    IF kind = "signup" THEN Open
    ELSE IF kind \in AdminOnly \ {"delete_order"} THEN require_admin(get_current_user(cred))
    ELSE get_current_user(cred)

\* the dependencies of each endpoint
Depends(kind, cred) ==
    IF kind = "signup" THEN Open
    ELSE IF kind \in AdminOnly THEN require_admin(get_current_user(cred))
    ELSE get_current_user(cred)

FirstStatement(kind) ==
    CASE kind = "create_order" -> "create_flush_order"
      [] kind = "get_order" -> "get_select_order"
      [] kind = "lookup_by_number" -> "lookup_select_order"
      [] kind = "list_orders" -> "list_select"
      [] kind = "update_order" -> "update_select_order"
      [] kind = "delete_order" -> "delete_select_order"
      [] kind = "update_status" -> "status_select_order"
      [] kind = "me" -> "me_return"
      [] kind = "get_preferences" -> "prefs_select"
      [] kind = "upsert_preferences" -> "upsert_select"
      [] kind = "signup" -> "signup_select"

\* sequence values are never handed out past the bounds: a request that will
\* insert is admitted only while a value is left for it (the value a failed
\* INSERT draws is seen by nobody, and is not counted)
OrderWriters == {q \in Procs : pc[q] = "create_flush_order"}
HistWriters ==
    {q \in Procs : /\ InFlight(q)
                   /\ req[q].kind \in {"create_order", "update_status"}
                   /\ sess[q].ins_hist = {}}
UserWriters == {q \in Procs : pc[q] \in {"signup_select", "signup_flush_user"}}
Admitted(kind) ==
    /\ kind = "signup" => nextUserId + Cardinality(UserWriters) <= MaxUserId
    /\ kind = "create_order" => nextOrderId + Cardinality(OrderWriters) <= MaxOrderId
    /\ kind \in {"create_order", "update_status"} =>
           nextHistId + Cardinality(HistWriters) <= MaxHistId

\* A request arrives at worker p: its dependencies are resolved (the session
\* is opened and the user is read: the transaction starts here).
Begin(p, r, cred) ==
    /\ pc[p] = "idle"
    /\ LET gate == Depends(r.kind, cred)
       IN IF gate.ok
          THEN /\ Admitted(r.kind)
               /\ pc' = [pc EXCEPT ![p] = FirstStatement(r.kind)]
               /\ sess' = [sess EXCEPT ![p] = [NoSession EXCEPT !.user = gate.user, !.now = clock]]
               /\ resp' = [resp EXCEPT ![p] = NoResp]
          ELSE \* a dependency raised: the handler is never called
               /\ pc' = [pc EXCEPT ![p] = "rollback"]
               /\ sess' = [sess EXCEPT ![p] = NoSession]
               /\ resp' = [resp EXCEPT ![p] = gate.error]
    /\ req' = [req EXCEPT ![p] = [r EXCEPT !.cred = cred]]
    /\ UNCHANGED <<users, prefs, orders, history, nextUserId, nextOrderId, nextHistId, clock>>

\* ------------------------------------------------------------ order store
_order_to_response(order) == order

_history_item(item) ==
    [id |-> item.id, old_status |-> item.old_status, new_status |-> item.new_status,
     changed_by_user_id |-> item.changed_by_user_id, note |-> item.note,
     changed_at |-> item.changed_at]

\* rows of other open sessions
PendingOrders(p) == UNION {sess[q].ins_order : q \in Others(p)}
PendingDeletes(p) == UNION {sess[q].del : q \in Others(p)}
RowLocked(p, id) ==
    \E q \in Others(p) : sess[q].upd.id = id \/ id \in sess[q].del
KeyShared(p, id) ==
    \E q \in Others(p) : \E h \in sess[q].ins_hist : h.order_id = id

\* a table without uq_orders_order_number
OrderIntegrityError_NoUnique(order_number, user_id) ==
    ~\E u \in users : u.id = user_id

\* uq_orders_order_number and the foreign key orders.user_id -> users.id
OrderIntegrityError(order_number, user_id) ==
    \/ \E o \in orders : o.order_number = order_number
    \/ ~\E u \in users : u.id = user_id

\* the INSERT waits for an open session that inserted the same order_number
\* or is deleting the row that holds it
OrderInsertWaits(p, order_number) ==
    \/ \E o \in PendingOrders(p) : o.order_number = order_number
    \/ \E o \in orders : o.order_number = order_number /\ o.id \in PendingDeletes(p)

CreateOrderRequest(order_number, user_id, title, description) ==
    [NoReq EXCEPT !.kind = "create_order", !.order_number = order_number,
                  !.user_id = user_id, !.title = title, !.description = description]

\* create_order, db.add(order); db.flush()
CreateFlushOrder(p) ==
    /\ pc[p] = "create_flush_order"
    /\ ~OrderInsertWaits(p, req[p].order_number)
    /\ IF OrderIntegrityError(req[p].order_number, req[p].user_id)
       THEN /\ pc' = [pc EXCEPT ![p] = "rollback"]
            /\ resp' = [resp EXCEPT ![p] = HTTPException(409, "Order number already exists")]
            /\ UNCHANGED <<sess, nextOrderId>>
       ELSE LET order == Order(nextOrderId, req[p].order_number, req[p].user_id,
                               req[p].title, req[p].description, sess[p].now)
            IN /\ sess' = [sess EXCEPT ![p].ins_order = {order}, ![p].obj = {order}]
               /\ pc' = [pc EXCEPT ![p] = "create_flush_history"]
               /\ nextOrderId' = nextOrderId + 1
               /\ UNCHANGED resp
    /\ UNCHANGED <<users, prefs, orders, history, nextUserId, nextHistId, clock, req>>

\* create_order, the history row of a creation: no old status, no actor
CreationEntry(id, order, at) ==
    OrderStatusHistory(id, order.id, Null, order.current_status, NullId, Null, at)

\* create_order, db.add(history); db.flush(); return
CreateFlushHistory(p) ==
    /\ pc[p] = "create_flush_history"
    /\ \E order \in sess[p].obj :
         /\ sess' = [sess EXCEPT ![p].ins_hist = {CreationEntry(nextHistId, order, sess[p].now)}]
         /\ resp' = [resp EXCEPT ![p] =
                        [NoResp EXCEPT !.status = 201, !.order = {_order_to_response(order)}]]
    /\ nextHistId' = nextHistId + 1
    /\ pc' = [pc EXCEPT ![p] = "commit"]
    /\ UNCHANGED <<users, prefs, orders, history, nextUserId, nextOrderId, clock, req>>

\* ORDER BY changed_at ASC, id ASC
HistoryBefore(a, b) ==
    \/ a.changed_at < b.changed_at
    \/ a.changed_at = b.changed_at /\ a.id <= b.id

RECURSIVE OrderByChangedAtId(_)
OrderByChangedAtId(rows) ==
    IF rows = {} THEN <<>>
    ELSE LET first == CHOOSE a \in rows : \A b \in rows : HistoryBefore(a, b)
         IN <<first>> \o OrderByChangedAtId(rows \ {first})

\* a query without ORDER BY: the rows in any order the datastore picks
Unordered(rows) ==
    {s \in [1..Cardinality(rows) -> rows] : \A i, j \in DOMAIN s : i # j => s[i] # s[j]}

\* ORDER BY created_at DESC: rows of equal created_at come in any order
OrderByCreatedAtDesc(rows) ==
    {s \in Unordered(rows) :
        \A i, j \in DOMAIN s : i < j => s[i].created_at >= s[j].created_at}

Items(s) == [i \in DOMAIN s |-> _history_item(s[i])]

\* what a SELECT of session p sees: the committed rows and its own writes
VisibleHistory(p, order_id) ==
    {h \in history \cup sess[p].ins_hist : h.order_id = order_id}

\* a lookup that checks existence and not ownership
LoadOrder_NoOwnerCheck(p, found, next, denied) ==
    IF found = {}
    THEN /\ pc' = [pc EXCEPT ![p] = "rollback"]
         /\ resp' = [resp EXCEPT ![p] = HTTPException(404, "Order not found")]
         /\ UNCHANGED sess
    ELSE /\ pc' = [pc EXCEPT ![p] = next]
         /\ sess' = [sess EXCEPT ![p].obj = found]
         /\ UNCHANGED resp

\* select(Order).where(...); 404 when missing, 403 for a customer who is not the owner
LoadOrder(p, found, next, denied) ==
    IF found = {}
    THEN /\ pc' = [pc EXCEPT ![p] = "rollback"]
         /\ resp' = [resp EXCEPT ![p] = HTTPException(404, "Order not found")]
         /\ UNCHANGED sess
    ELSE IF \E u \in sess[p].user, o \in found : u.role # "admin" /\ o.user_id # u.id
    THEN /\ pc' = [pc EXCEPT ![p] = "rollback"]
         /\ resp' = [resp EXCEPT ![p] = HTTPException(403, denied)]
         /\ UNCHANGED sess
    ELSE /\ pc' = [pc EXCEPT ![p] = next]
         /\ sess' = [sess EXCEPT ![p].obj = found]
         /\ UNCHANGED resp

GetOrderRequest(order_id) == [NoReq EXCEPT !.kind = "get_order", !.order_id = order_id]

\* get_order, select(Order).where(Order.id == order_id)
GetSelectOrder(p) ==
    /\ pc[p] = "get_select_order"
    /\ LoadOrder(p, {o \in orders : o.id = req[p].order_id}, "get_select_history",
                 "Not authorized to view this order")
    /\ UNCHANGED <<users, prefs, orders, history, nextUserId, nextOrderId, nextHistId, clock, req>>

\* get_order, the ordered history query and the response
GetSelectHistory(p) ==
    /\ pc[p] = "get_select_history"
    /\ \E order \in sess[p].obj :
         resp' = [resp EXCEPT ![p] =
                    [NoResp EXCEPT !.status = 200, !.order = {_order_to_response(order)},
                        !.history = Items(OrderByChangedAtId(VisibleHistory(p, order.id)))]]
    /\ pc' = [pc EXCEPT ![p] = "commit"]
    /\ UNCHANGED <<users, prefs, orders, history, nextUserId, nextOrderId, nextHistId, clock, req, sess>>

LookupRequest(order_number) ==
    [NoReq EXCEPT !.kind = "lookup_by_number", !.order_number = order_number]

\* lookup_by_number, select(Order).where(Order.order_number == order_number)
LookupSelectOrder(p) ==
    /\ pc[p] = "lookup_select_order"
    /\ LoadOrder(p, {o \in orders : o.order_number = req[p].order_number},
                 "lookup_select_history", "Not authorized to view this order")
    /\ UNCHANGED <<users, prefs, orders, history, nextUserId, nextOrderId, nextHistId, clock, req>>

\* lookup_by_number, the history query (no ORDER BY) and the response
LookupSelectHistory(p) ==
    /\ pc[p] = "lookup_select_history"
    /\ \E order \in sess[p].obj :
         \E rows \in Unordered(VisibleHistory(p, order.id)) :
            resp' = [resp EXCEPT ![p] =
                       [NoResp EXCEPT !.status = 200, !.order = {_order_to_response(order)},
                           !.history = Items(rows)]]
    /\ pc' = [pc EXCEPT ![p] = "commit"]
    /\ UNCHANGED <<users, prefs, orders, history, nextUserId, nextOrderId, nextHistId, clock, req, sess>>

ListOrdersRequest == [NoReq EXCEPT !.kind = "list_orders"]

\* the rows list_orders selects for the acting user
ListScope(u) ==
    IF u.role = "admin" THEN orders ELSE {o \in orders : o.user_id = u.id}

\* list_orders
ListSelect(p) ==
    /\ pc[p] = "list_select"
    /\ \E u \in sess[p].user :
         \E rows \in OrderByCreatedAtDesc(ListScope(u)) :
            resp' = [resp EXCEPT ![p] =
                       [NoResp EXCEPT !.status = 200,
                           !.list = [i \in DOMAIN rows |-> _order_to_response(rows[i])]]]
    /\ pc' = [pc EXCEPT ![p] = "commit"]
    /\ UNCHANGED <<users, prefs, orders, history, nextUserId, nextOrderId, nextHistId, clock, req, sess>>

UpdateOrderRequest(order_id, title, description) ==
    [NoReq EXCEPT !.kind = "update_order", !.order_id = order_id,
                  !.title = title, !.description = description]

\* update_order, select(Order).where(Order.id == order_id)
UpdateSelectOrder(p) ==
    /\ pc[p] = "update_select_order"
    /\ LoadOrder(p, {o \in orders : o.id = req[p].order_id}, "update_flush", "Not authorized")
    /\ UNCHANGED <<users, prefs, orders, history, nextUserId, nextOrderId, nextHistId, clock, req>>

\* update_order: only the fields the payload carries overwrite
Patch(order, title, description) ==
    [order EXCEPT !.title = IF title # Null THEN title ELSE @,
                  !.description = IF description # Null THEN description ELSE @]

\* an UPDATE that writes every column of the object as loaded
UpdateOf_AllColumns(old, new) ==
    [id |-> old.id, current_status |-> new.current_status,
     title |-> new.title, description |-> new.description]

\* the UPDATE a flush emits carries the columns whose value changed, and no
\* UPDATE is emitted when none did
UpdateOf(old, new) ==
    [id |-> old.id,
     current_status |-> IF new.current_status # old.current_status THEN new.current_status ELSE Null,
     title |-> IF new.title # old.title THEN new.title ELSE Null,
     description |-> IF new.description # old.description THEN new.description ELSE Null]

NetChange(old, new) ==
    \/ new.current_status # old.current_status
    \/ new.title # old.title
    \/ new.description # old.description

\* update_order, db.add(order); db.flush(); return
UpdateFlush(p) ==
    /\ pc[p] = "update_flush"
    /\ \E order \in sess[p].obj :
         LET new == Patch(order, req[p].title, req[p].description)
         IN IF ~NetChange(order, new)
            THEN /\ pc' = [pc EXCEPT ![p] = "commit"]
                 /\ resp' = [resp EXCEPT ![p] =
                               [NoResp EXCEPT !.status = 200, !.order = {_order_to_response(order)}]]
                 /\ UNCHANGED sess
            ELSE /\ ~RowLocked(p, order.id)
                 /\ IF \E o \in orders : o.id = order.id
                    THEN LET flushed == [new EXCEPT !.updated_at = sess[p].now]
                         IN /\ sess' = [sess EXCEPT ![p].upd = UpdateOf(order, new),
                                                    ![p].obj = {flushed}]
                            /\ pc' = [pc EXCEPT ![p] = "commit"]
                            /\ resp' = [resp EXCEPT ![p] =
                                          [NoResp EXCEPT !.status = 200,
                                              !.order = {_order_to_response(flushed)}]]
                    ELSE \* the UPDATE matched no row: StaleDataError
                         /\ pc' = [pc EXCEPT ![p] = "rollback"]
                         /\ resp' = [resp EXCEPT ![p] = HTTPException(500, "Internal Server Error")]
                         /\ UNCHANGED sess
    /\ UNCHANGED <<users, prefs, orders, history, nextUserId, nextOrderId, nextHistId, clock, req>>

DeleteOrderRequest(order_id) == [NoReq EXCEPT !.kind = "delete_order", !.order_id = order_id]

\* delete_order, select(Order).where(Order.id == order_id)
DeleteSelectOrder(p) ==
    /\ pc[p] = "delete_select_order"
    /\ LET found == {o \in orders : o.id = req[p].order_id}
       IN IF found = {}
          THEN /\ pc' = [pc EXCEPT ![p] = "rollback"]
               /\ resp' = [resp EXCEPT ![p] = HTTPException(404, "Order not found")]
               /\ UNCHANGED sess
          ELSE /\ pc' = [pc EXCEPT ![p] = "delete_flush"]
               /\ sess' = [sess EXCEPT ![p].obj = found]
               /\ UNCHANGED resp
    /\ UNCHANGED <<users, prefs, orders, history, nextUserId, nextOrderId, nextHistId, clock, req>>

\* the rows a DELETE of these orders removes (the order and, by cascade, its history)
DeletedOrders(ids) == {o \in orders : o.id \in ids}

\* a cascade that takes every history row with it
DeletedHistory_Everything(ids) == IF ids = {} THEN {} ELSE history

DeletedHistory(ids) == {h \in history : h.order_id \in ids}

\* delete_order, db.delete(order); db.flush(); return
DeleteFlush(p) ==
    /\ pc[p] = "delete_flush"
    /\ \E order \in sess[p].obj :
         /\ ~RowLocked(p, order.id)
         /\ ~KeyShared(p, order.id)
         /\ sess' = [sess EXCEPT ![p].del = {order.id}]
    /\ pc' = [pc EXCEPT ![p] = "commit"]
    /\ resp' = [resp EXCEPT ![p] = [NoResp EXCEPT !.status = 204]]
    /\ UNCHANGED <<users, prefs, orders, history, nextUserId, nextOrderId, nextHistId, clock, req>>

UpdateStatusRequest(order_id, new_status, note) ==
    [NoReq EXCEPT !.kind = "update_status", !.order_id = order_id,
                  !.new_status = new_status, !.note = note]

\* update_status, select(Order).where(Order.id == order_id)
StatusSelectOrder(p) ==
    /\ pc[p] = "status_select_order"
    /\ LET found == {o \in orders : o.id = req[p].order_id}
       IN IF found = {}
          THEN /\ pc' = [pc EXCEPT ![p] = "rollback"]
               /\ resp' = [resp EXCEPT ![p] = HTTPException(404, "Order not found")]
               /\ UNCHANGED sess
          ELSE /\ pc' = [pc EXCEPT ![p] = "status_flush_order"]
               /\ sess' = [sess EXCEPT ![p].obj = found]
               /\ UNCHANGED resp
    /\ UNCHANGED <<users, prefs, orders, history, nextUserId, nextOrderId, nextHistId, clock, req>>

\* update_status: old = order.current_status; order.current_status = new_status;
\* db.add(order); db.flush()
StatusFlushOrder(p) ==
    /\ pc[p] = "status_flush_order"
    /\ \E order \in sess[p].obj :
         LET new == [order EXCEPT !.current_status = req[p].new_status]
         IN IF ~NetChange(order, new)
            THEN /\ pc' = [pc EXCEPT ![p] = "status_flush_history"]
                 /\ sess' = [sess EXCEPT ![p].old = order.current_status]
                 /\ UNCHANGED resp
            ELSE /\ ~RowLocked(p, order.id)
                 /\ IF \E o \in orders : o.id = order.id
                    THEN /\ sess' = [sess EXCEPT ![p].old = order.current_status,
                                                 ![p].upd = UpdateOf(order, new),
                                                 ![p].obj = {[new EXCEPT !.updated_at = sess[p].now]}]
                         /\ pc' = [pc EXCEPT ![p] = "status_flush_history"]
                         /\ UNCHANGED resp
                    ELSE \* the UPDATE matched no row: StaleDataError
                         /\ pc' = [pc EXCEPT ![p] = "rollback"]
                         /\ resp' = [resp EXCEPT ![p] = HTTPException(500, "Internal Server Error")]
                         /\ UNCHANGED sess
    /\ UNCHANGED <<users, prefs, orders, history, nextUserId, nextOrderId, nextHistId, clock, req>>

\* the foreign keys of order_status_history: order_id -> orders.id,
\* changed_by_user_id -> users.id
HistoryIntegrityError(order_id, changed_by) ==
    \/ ~\E o \in orders : o.id = order_id
    \/ changed_by # NullId /\ ~\E u \in users : u.id = changed_by

\* update_status, db.add(history); db.flush()
StatusFlushHistory(p) ==
    /\ pc[p] = "status_flush_history"
    /\ \E order \in sess[p].obj, admin \in sess[p].user :
         /\ order.id \notin PendingDeletes(p)
         /\ IF HistoryIntegrityError(order.id, admin.id)
            THEN /\ pc' = [pc EXCEPT ![p] = "rollback"]
                 /\ resp' = [resp EXCEPT ![p] = HTTPException(500, "Internal Server Error")]
                 /\ UNCHANGED <<sess, nextHistId>>
            ELSE /\ sess' = [sess EXCEPT ![p].ins_hist =
                                {OrderStatusHistory(nextHistId, order.id, sess[p].old,
                                                    req[p].new_status, admin.id, req[p].note,
                                                    sess[p].now)}]
                 /\ pc' = [pc EXCEPT ![p] = "status_select_history"]
                 /\ nextHistId' = nextHistId + 1
                 /\ UNCHANGED resp
    /\ UNCHANGED <<users, prefs, orders, history, nextUserId, nextOrderId, clock, req>>

\* update_status, the ordered history query and the response
StatusSelectHistory(p) ==
    /\ pc[p] = "status_select_history"
    /\ \E order \in sess[p].obj :
         resp' = [resp EXCEPT ![p] =
                    [NoResp EXCEPT !.status = 200, !.order = {_order_to_response(order)},
                        !.history = Items(OrderByChangedAtId(VisibleHistory(p, order.id)))]]
    /\ pc' = [pc EXCEPT ![p] = "commit"]
    /\ UNCHANGED <<users, prefs, orders, history, nextUserId, nextOrderId, nextHistId, clock, req, sess>>

MeRequest == [NoReq EXCEPT !.kind = "me"]

\* me
MeReturn(p) ==
    /\ pc[p] = "me_return"
    /\ resp' = [resp EXCEPT ![p] = [NoResp EXCEPT !.status = 200, !.user = sess[p].user]]
    /\ pc' = [pc EXCEPT ![p] = "commit"]
    /\ UNCHANGED <<users, prefs, orders, history, nextUserId, nextOrderId, nextHistId, clock, req, sess>>

\* -------------------------------------------------------- preference store
GetPreferencesRequest == [NoReq EXCEPT !.kind = "get_preferences"]

NotificationPreferenceResponse(pref) == pref

\* get_preferences
PrefsSelect(p) ==
    /\ pc[p] = "prefs_select"
    /\ \E u \in sess[p].user :
         LET found == {n \in prefs : n.user_id = u.id}
         IN IF found = {}
            THEN /\ pc' = [pc EXCEPT ![p] = "rollback"]
                 /\ resp' = [resp EXCEPT ![p] =
                               HTTPException(404, "Notification preferences not found")]
            ELSE /\ pc' = [pc EXCEPT ![p] = "commit"]
                 /\ resp' = [resp EXCEPT ![p] =
                               [NoResp EXCEPT !.status = 200,
                                   !.pref = {NotificationPreferenceResponse(n) : n \in found}]]
    /\ UNCHANGED <<users, prefs, orders, history, nextUserId, nextOrderId, nextHistId, clock, req, sess>>

\* the payload of PUT /notifications/preferences
UpsertRequest(enabled, channel, email, phone, push_token) ==
    [NoReq EXCEPT !.kind = "upsert_preferences",
                  !.pref = {NotificationPreference(NullId, enabled, channel, email, phone, push_token)}]

\* upsert_preferences, select(NotificationPreference).where(user_id == user.id)
UpsertSelect(p) ==
    /\ pc[p] = "upsert_select"
    /\ \E u \in sess[p].user :
         LET found == {n \in prefs : n.user_id = u.id}
         IN /\ sess' = [sess EXCEPT ![p].pref = found]
            /\ pc' = [pc EXCEPT ![p] =
                        IF found = {} THEN "upsert_flush_insert" ELSE "upsert_flush_update"]
    /\ UNCHANGED <<users, prefs, orders, history, nextUserId, nextOrderId, nextHistId, clock, req, resp>>

\* the unique user_id of notification_preferences and its foreign key
PrefIntegrityError(user_id) ==
    \/ \E n \in prefs : n.user_id = user_id
    \/ ~\E u \in users : u.id = user_id

\* upsert_preferences, pref = NotificationPreference(user_id=user.id); db.add; db.flush()
UpsertFlushInsert(p) ==
    /\ pc[p] = "upsert_flush_insert"
    /\ \E u \in sess[p].user :
         /\ ~\E q \in Others(p) : \E n \in sess[q].ins_pref : n.user_id = u.id
         /\ IF PrefIntegrityError(u.id)
            THEN /\ pc' = [pc EXCEPT ![p] = "rollback"]
                 /\ resp' = [resp EXCEPT ![p] = HTTPException(500, "Internal Server Error")]
                 /\ UNCHANGED sess
            ELSE LET row == NotificationPreference(u.id, TRUE, "email", Null, Null, Null)
                 IN /\ sess' = [sess EXCEPT ![p].pref = {row}, ![p].ins_pref = {row}]
                    /\ pc' = [pc EXCEPT ![p] = "upsert_flush_update"]
                    /\ UNCHANGED resp
    /\ UNCHANGED <<users, prefs, orders, history, nextUserId, nextOrderId, nextHistId, clock, req>>

\* upsert_preferences, the assignments: a full replace, but for email
Replace(pref, payload) ==
    [pref EXCEPT !.enabled = payload.enabled,
                 !.channel = payload.channel,
                 !.email = IF payload.email # Null THEN payload.email ELSE @,
                 !.phone = payload.phone,
                 !.push_token = payload.push_token]

PrefColumns == {"enabled", "channel", "email", "phone", "push_token"}
\* the columns whose value the assignments changed
Changed(old, new) == {c \in PrefColumns : old[c] # new[c]}

\* UPDATE notification_preferences SET <cols> WHERE id = ..., on the row as committed
ApplyPrefUpdate(n, updates) ==
    IF \E w \in updates : w.row.user_id = n.user_id
    THEN LET w == CHOOSE w \in updates : w.row.user_id = n.user_id
         IN [n EXCEPT !.enabled = IF "enabled" \in w.cols THEN w.row.enabled ELSE @,
                      !.channel = IF "channel" \in w.cols THEN w.row.channel ELSE @,
                      !.email = IF "email" \in w.cols THEN w.row.email ELSE @,
                      !.phone = IF "phone" \in w.cols THEN w.row.phone ELSE @,
                      !.push_token = IF "push_token" \in w.cols THEN w.row.push_token ELSE @]
    ELSE n

\* upsert_preferences, db.add(pref); db.flush(); return
UpsertFlushUpdate(p) ==
    /\ pc[p] = "upsert_flush_update"
    /\ \E pref \in sess[p].pref, payload \in req[p].pref :
         LET new == Replace(pref, payload)
             ok == [NoResp EXCEPT !.status = 200, !.pref = {NotificationPreferenceResponse(new)}]
         IN IF Changed(pref, new) = {}
            THEN /\ pc' = [pc EXCEPT ![p] = "commit"]
                 /\ resp' = [resp EXCEPT ![p] = ok]
                 /\ UNCHANGED sess
            ELSE IF sess[p].ins_pref # {}
            THEN /\ sess' = [sess EXCEPT ![p].pref = {new}, ![p].ins_pref = {new}]
                 /\ pc' = [pc EXCEPT ![p] = "commit"]
                 /\ resp' = [resp EXCEPT ![p] = ok]
            ELSE /\ ~\E q \in Others(p) : \E w \in sess[q].upd_pref : w.row.user_id = pref.user_id
                 /\ IF \E n \in prefs : n.user_id = pref.user_id
                    THEN /\ sess' = [sess EXCEPT ![p].pref = {new},
                                       ![p].upd_pref = {[cols |-> Changed(pref, new), row |-> new]}]
                         /\ pc' = [pc EXCEPT ![p] = "commit"]
                         /\ resp' = [resp EXCEPT ![p] = ok]
                    ELSE \* the UPDATE matched no row: StaleDataError
                         /\ pc' = [pc EXCEPT ![p] = "rollback"]
                         /\ resp' = [resp EXCEPT ![p] = HTTPException(500, "Internal Server Error")]
                         /\ UNCHANGED sess
    /\ UNCHANGED <<users, prefs, orders, history, nextUserId, nextOrderId, nextHistId, clock, req>>

\* ------------------------------------------------------------------ signup
Emails == {"bob@x.io", "eve@x.io"}

\* the payload of POST /auth/signup
SignupRequest(email, role) == [NoReq EXCEPT !.kind = "signup", !.email = email, !.role = role]

\* signup, the existence pre-check
SignupSelect(p) ==
    /\ pc[p] = "signup_select"
    /\ IF \E u \in users : u.email = req[p].email
       THEN /\ pc' = [pc EXCEPT ![p] = "rollback"]
            /\ resp' = [resp EXCEPT ![p] = HTTPException(409, "Email already registered")]
       ELSE /\ pc' = [pc EXCEPT ![p] = "signup_flush_user"]
            /\ UNCHANGED resp
    /\ UNCHANGED <<users, prefs, orders, history, nextUserId, nextOrderId, nextHistId, clock, req, sess>>

\* the unique index on users.email
UserIntegrityError(email) == \E u \in users : u.email = email

\* signup, user = User(email, password_hash, role=customer); db.add; db.flush()
SignupFlushUser(p) ==
    /\ pc[p] = "signup_flush_user"
    /\ ~\E q \in Others(p) : \E u \in sess[q].ins_user : u.email = req[p].email
    /\ IF UserIntegrityError(req[p].email)
       THEN /\ pc' = [pc EXCEPT ![p] = "rollback"]
            /\ resp' = [resp EXCEPT ![p] = HTTPException(500, "Internal Server Error")]
            /\ UNCHANGED <<sess, nextUserId>>
       ELSE /\ sess' = [sess EXCEPT ![p].ins_user =
                          {User(nextUserId, req[p].email, "customer", TRUE)}]
            /\ nextUserId' = nextUserId + 1
            /\ pc' = [pc EXCEPT ![p] = "signup_flush_pref"]
            /\ UNCHANGED resp
    /\ UNCHANGED <<users, prefs, orders, history, nextOrderId, nextHistId, clock, req>>

\* signup, the default preference row; return UserPublic
SignupFlushPref(p) ==
    /\ pc[p] = "signup_flush_pref"
    /\ \E user \in sess[p].ins_user :
         /\ sess' = [sess EXCEPT ![p].ins_pref =
                       {NotificationPreference(user.id, TRUE, "email", user.email, Null, Null)}]
         /\ resp' = [resp EXCEPT ![p] = [NoResp EXCEPT !.status = 201, !.user = {user}]]
    /\ pc' = [pc EXCEPT ![p] = "commit"]
    /\ UNCHANGED <<users, prefs, orders, history, nextUserId, nextOrderId, nextHistId, clock, req>>

\* ------------------------------------------------------------- the session
ApplyUpdate(o, u, at) ==
    IF o.id # u.id THEN o
    ELSE [o EXCEPT !.current_status = IF u.current_status = Null THEN @ ELSE u.current_status,
                   !.title = IF u.title = Null THEN @ ELSE u.title,
                   !.description = IF u.description = Null THEN @ ELSE u.description,
                   !.updated_at = at]

CommittedOrders(s) ==
    {ApplyUpdate(o, s.upd, s.now) : o \in orders \ DeletedOrders(s.del)} \cup s.ins_order

\* a commit that loses the session's history INSERT
CommittedHistory_LosesInsert(s) ==
    history \ DeletedHistory(s.del)

\* a commit that keeps only the newest row of an order
CommittedHistory_KeepsLatest(s) ==
    {h \in history \ DeletedHistory(s.del) :
        ~\E g \in s.ins_hist : g.order_id = h.order_id} \cup s.ins_hist

CommittedHistory(s) ==
    (history \ DeletedHistory(s.del)) \cup s.ins_hist

CommittedUsers(s) == users \cup s.ins_user

\* a commit that loses the session's preference INSERT
CommittedPrefs_LosesInsert(s) ==
    {ApplyPrefUpdate(n, s.upd_pref) : n \in prefs}

CommittedPrefs(s) ==
    {ApplyPrefUpdate(n, s.upd_pref) : n \in prefs} \cup s.ins_pref

\* session_scope: commit after the handler returned, rollback after it raised
Finish(p) ==
    /\ pc[p] \in {"commit", "rollback"}
    /\ IF pc[p] = "commit"
       THEN /\ orders' = CommittedOrders(sess[p])
            /\ history' = CommittedHistory(sess[p])
            /\ prefs' = CommittedPrefs(sess[p])
            /\ users' = CommittedUsers(sess[p])
       ELSE UNCHANGED <<orders, history, prefs, users>>
    /\ pc' = [pc EXCEPT ![p] = "idle"]
    /\ req' = [req EXCEPT ![p] = NoReq]
    /\ sess' = [sess EXCEPT ![p] = NoSession]
    /\ resp' = [resp EXCEPT ![p] = NoResp]
    /\ UNCHANGED <<nextUserId, nextOrderId, nextHistId, clock>>

\* ------------------------------------------------------------- environment
Tick ==
    /\ clock < MaxClock
    /\ clock' = clock + 1
    /\ UNCHANGED <<users, prefs, orders, history, nextUserId, nextOrderId, nextHistId, pc, req, sess, resp>>

\* an exception anywhere in a handler: session_scope rolls back and re-raises
Fail(p) ==
    /\ InFlight(p)
    /\ pc' = [pc EXCEPT ![p] = "rollback"]
    /\ resp' = [resp EXCEPT ![p] = HTTPException(500, "Internal Server Error")]
    /\ UNCHANGED <<users, prefs, orders, history, nextUserId, nextOrderId, nextHistId, clock, req, sess>>

\* is_active is toggled outside the service
SetActive(id, is_active) ==
    /\ \E u \in users : u.id = id /\ u.is_active # is_active
    /\ users' = {[u EXCEPT !.is_active = IF u.id = id THEN is_active ELSE @] : u \in users}
    /\ UNCHANGED <<prefs, orders, history, nextUserId, nextOrderId, nextHistId, clock, pc, req, sess, resp>>

\* a user's role is changed outside the service (no endpoint writes it)
SetRole(id, role) ==
    /\ \E u \in users : u.id = id /\ u.role # role
    /\ users' = {[u EXCEPT !.role = IF u.id = id THEN role ELSE @] : u \in users}
    /\ UNCHANGED <<prefs, orders, history, nextUserId, nextOrderId, nextHistId, clock, pc, req, sess, resp>>

\* open sessions whose pending rows reference the user or one of the user's orders
References(s, id) ==
    LET owned == {o.id : o \in {x \in orders : x.user_id = id}}
    IN \/ \E o \in s.ins_order : o.user_id = id
       \/ \E h \in s.ins_hist : h.changed_by_user_id = id \/ h.order_id \in owned
       \/ s.upd.id \in owned
       \/ s.del \cap owned # {}
       \/ \E n \in s.ins_pref : n.user_id = id
       \/ \E w \in s.upd_pref : w.row.user_id = id

\* a user row is deleted outside the service: ON DELETE CASCADE on orders,
\* their history and the preference row, SET NULL on changed_by_user_id
DeleteUser(id) ==
    /\ \E u \in users : u.id = id
    /\ \A p \in Procs : ~References(sess[p], id)
    /\ LET owned == {o.id : o \in {x \in orders : x.user_id = id}}
       IN /\ users' = {u \in users : u.id # id}
          /\ prefs' = {n \in prefs : n.user_id # id}
          /\ orders' = {o \in orders : o.user_id # id}
          /\ history' = {[h EXCEPT !.changed_by_user_id = IF @ = id THEN NullId ELSE @] :
                            h \in {x \in history : x.order_id \notin owned}}
    /\ UNCHANGED <<nextUserId, nextOrderId, nextHistId, clock, pc, req, sess, resp>>

\* ------------------------------------------------------------------ inputs
Admin == create_access_token(1, "admin")
Customer == create_access_token(2, "customer")
OrderIds == 1..MaxOrderId
Payloads ==
    {NotificationPreference(NullId, FALSE, "sms", Null, "+1555", Null),
     NotificationPreference(NullId, TRUE, "email", "new@x.io", Null, Null),
     NotificationPreference(NullId, TRUE, "push", Null, Null, "tok")}

\* the statements of the handlers, for the workers P
CreateSteps(P) ==
    \/ \E p \in P : CreateFlushOrder(p)
    \/ \E p \in P : CreateFlushHistory(p)
StatusSteps(P) ==
    \/ \E p \in P : StatusSelectOrder(p)
    \/ \E p \in P : StatusFlushOrder(p)
    \/ \E p \in P : StatusFlushHistory(p)
    \/ \E p \in P : StatusSelectHistory(p)
DeleteSteps(P) ==
    \/ \E p \in P : DeleteSelectOrder(p)
    \/ \E p \in P : DeleteFlush(p)
UpdateSteps(P) ==
    \/ \E p \in P : UpdateSelectOrder(p)
    \/ \E p \in P : UpdateFlush(p)
ReadSteps(P) ==
    \/ \E p \in P : GetSelectOrder(p)
    \/ \E p \in P : GetSelectHistory(p)
    \/ \E p \in P : LookupSelectOrder(p)
    \/ \E p \in P : LookupSelectHistory(p)
    \/ \E p \in P : ListSelect(p)
SignupSteps(P) ==
    \/ \E p \in P : SignupSelect(p)
    \/ \E p \in P : SignupFlushUser(p)
    \/ \E p \in P : SignupFlushPref(p)
AccountSteps(P) ==
    \/ \E p \in P : MeReturn(p)
    \/ \E p \in P : PrefsSelect(p)
    \/ \E p \in P : UpsertSelect(p)
    \/ \E p \in P : UpsertFlushInsert(p)
    \/ \E p \in P : UpsertFlushUpdate(p)

\* ------------------------------------------------------------- the service
\* every endpoint, every credential, the users changing outside the service
Next ==
    \/ \E p \in Procs, cred \in Credentials, n \in OrderNumbers, u \in UserIds,
            t \in Titles, d \in Descriptions :
          Begin(p, CreateOrderRequest(n, u, t, d), cred)
    \/ \E p \in Procs, cred \in Credentials, id \in OrderIds :
          Begin(p, GetOrderRequest(id), cred)
    \/ \E p \in Procs, cred \in Credentials, n \in OrderNumbers :
          Begin(p, LookupRequest(n), cred)
    \/ \E p \in Procs, cred \in Credentials : Begin(p, ListOrdersRequest, cred)
    \/ \E p \in Procs, cred \in Credentials, id \in OrderIds, t \in NewTitles,
            d \in NewDescriptions :
          Begin(p, UpdateOrderRequest(id, t, d), cred)
    \/ \E p \in Procs, cred \in Credentials, id \in OrderIds :
          Begin(p, DeleteOrderRequest(id), cred)
    \/ \E p \in Procs, cred \in Credentials, id \in OrderIds, st \in StatusInputs,
            note \in Notes :
          Begin(p, UpdateStatusRequest(id, st, note), cred)
    \/ \E p \in Procs, cred \in Credentials : Begin(p, MeRequest, cred)
    \/ \E p \in Procs, cred \in Credentials : Begin(p, GetPreferencesRequest, cred)
    \/ \E p \in Procs, cred \in Credentials, n \in Payloads :
          Begin(p, UpsertRequest(n.enabled, n.channel, n.email, n.phone, n.push_token), cred)
    \/ \E p \in Procs, e \in Emails, r \in UserRole \cup {Null} :
          Begin(p, SignupRequest(e, r), NoCredentials)
    \/ CreateSteps(Procs) \/ ReadSteps(Procs) \/ UpdateSteps(Procs)
    \/ DeleteSteps(Procs) \/ StatusSteps(Procs) \/ AccountSteps(Procs)
    \/ SignupSteps(Procs)
    \/ \E p \in Procs : Finish(p)
    \/ \E p \in Procs : Fail(p)
    \/ \E id \in UserIds, b \in BOOLEAN : SetActive(id, b)
    \/ \E id \in UserIds : DeleteUser(id)
    \/ \E id \in UserIds, r \in UserRole : SetRole(id, r)
    \/ Tick

Spec == Init /\ [][Next]_vars

\* The order store under two concurrent admin sessions: Create, UpdateStatus
\* and Delete, every interleaving of their statements.
NextStore ==
    \/ \E p \in Procs, n \in OrderNumbers, t \in Titles, d \in Descriptions :
          Begin(p, CreateOrderRequest(n, 2, t, d), Admin)
    \/ \E p \in Procs, id \in OrderIds, st \in {"created", "shipped"} :
          Begin(p, UpdateStatusRequest(id, st, Null), Admin)
    \/ \E p \in Procs, id \in OrderIds : Begin(p, DeleteOrderRequest(id), Admin)
    \/ CreateSteps(Procs) \/ StatusSteps(Procs) \/ DeleteSteps(Procs)
    \/ \E p \in Procs : Finish(p)

SpecStore == Init /\ [][NextStore]_vars

\* One order number, two concurrent admin sessions, handlers that may fail at
\* any statement.
NextAtomic ==
    \/ \E p \in Procs : Begin(p, CreateOrderRequest("ORD-1", 2, "Widget", Null), Admin)
    \/ \E p \in Procs, id \in OrderIds, st \in {"created", "shipped"} :
          Begin(p, UpdateStatusRequest(id, st, Null), Admin)
    \/ \E p \in Procs, id \in OrderIds : Begin(p, GetOrderRequest(id), Admin)
    \/ CreateSteps(Procs) \/ StatusSteps(Procs)
    \/ \E p \in Procs : GetSelectOrder(p)
    \/ \E p \in Procs : GetSelectHistory(p)
    \/ \E p \in Procs : Finish(p)
    \/ \E p \in Procs : Fail(p)

SpecAtomic == Init /\ [][NextAtomic]_vars

\* Concurrent Creates: colliding order numbers, owners that exist or not,
\* Deletes that free a number, handlers that may fail.
NextCreate ==
    \/ \E p \in Procs, n \in OrderNumbers, u \in {2, 3}, t \in Titles, d \in Descriptions :
          Begin(p, CreateOrderRequest(n, u, t, d), Admin)
    \/ \E p \in Procs, id \in OrderIds : Begin(p, DeleteOrderRequest(id), Admin)
    \/ CreateSteps(Procs) \/ DeleteSteps(Procs)
    \/ \E p \in Procs : Finish(p)
    \/ \E p \in Procs : Fail(p)

SpecCreate == Init /\ [][NextCreate]_vars

\* Status updates racing on the datastore's clock: the four mutations of the
\* order store, two workers, time passing between any two statements.
NextClock ==
    \/ \E p \in Procs, t \in Titles, d \in Descriptions :
          Begin(p, CreateOrderRequest("ORD-1", 2, t, d), Admin)
    \/ \E p \in Procs, id \in OrderIds, st \in {"created", "shipped"}, note \in Notes :
          Begin(p, UpdateStatusRequest(id, st, note), Admin)
    \/ \E p \in Procs, id \in OrderIds : Begin(p, UpdateOrderRequest(id, "Gadget", Null), Admin)
    \/ \E p \in Procs, id \in OrderIds : Begin(p, DeleteOrderRequest(id), Admin)
    \/ CreateSteps(Procs) \/ StatusSteps(Procs) \/ UpdateSteps(Procs) \/ DeleteSteps(Procs)
    \/ \E p \in Procs : Finish(p)
    \/ Tick

SpecClock == Init /\ [][NextClock]_vars

\* Owner scoping and role gating: one worker serving an admin and a customer,
\* orders owned by either of them.
Gate == {"w1"}
Callers == {Admin, Customer}
NextAccess ==
    \/ \E p \in Gate, cred \in Callers, n \in OrderNumbers, u \in {1, 2} :
          Begin(p, CreateOrderRequest(n, u, "Widget", Null), cred)
    \/ \E p \in Gate, cred \in Callers, id \in OrderIds :
          Begin(p, GetOrderRequest(id), cred)
    \/ \E p \in Gate, cred \in Callers, n \in OrderNumbers :
          Begin(p, LookupRequest(n), cred)
    \/ \E p \in Gate, cred \in Callers : Begin(p, ListOrdersRequest, cred)
    \/ \E p \in Gate, cred \in Callers, id \in OrderIds :
          Begin(p, UpdateOrderRequest(id, "Gadget", Null), cred)
    \/ \E p \in Gate, cred \in Callers, id \in OrderIds :
          Begin(p, DeleteOrderRequest(id), cred)
    \/ \E p \in Gate, cred \in Callers, id \in OrderIds :
          Begin(p, UpdateStatusRequest(id, "shipped", Null), cred)
    \/ CreateSteps(Gate) \/ ReadSteps(Gate) \/ UpdateSteps(Gate)
    \/ DeleteSteps(Gate) \/ StatusSteps(Gate)
    \/ \E p \in Gate : Finish(p)

SpecAccess == Init /\ [][NextAccess]_vars

\* The activity check in front of every bearer-protected endpoint: one worker,
\* every credential, users deactivated and deleted outside the service.
NextActive ==
    \/ \E p \in Gate, cred \in Credentials :
          Begin(p, CreateOrderRequest("ORD-1", 2, "Widget", Null), cred)
    \/ \E p \in Gate, cred \in Credentials, id \in OrderIds :
          Begin(p, GetOrderRequest(id), cred)
    \/ \E p \in Gate, cred \in Credentials :
          Begin(p, LookupRequest("ORD-1"), cred)
    \/ \E p \in Gate, cred \in Credentials : Begin(p, ListOrdersRequest, cred)
    \/ \E p \in Gate, cred \in Credentials, id \in OrderIds :
          Begin(p, UpdateOrderRequest(id, "Gadget", Null), cred)
    \/ \E p \in Gate, cred \in Credentials, id \in OrderIds :
          Begin(p, DeleteOrderRequest(id), cred)
    \/ \E p \in Gate, cred \in Credentials, id \in OrderIds :
          Begin(p, UpdateStatusRequest(id, "shipped", Null), cred)
    \/ \E p \in Gate, cred \in Credentials : Begin(p, MeRequest, cred)
    \/ \E p \in Gate, cred \in Credentials : Begin(p, GetPreferencesRequest, cred)
    \/ \E p \in Gate, cred \in Credentials :
          Begin(p, UpsertRequest(FALSE, "sms", Null, "+1555", Null), cred)
    \/ CreateSteps(Gate) \/ ReadSteps(Gate) \/ UpdateSteps(Gate)
    \/ DeleteSteps(Gate) \/ StatusSteps(Gate) \/ AccountSteps(Gate)
    \/ \E p \in Gate : Finish(p)
    \/ \E id \in UserIds, b \in BOOLEAN : SetActive(id, b)
    \/ \E id \in UserIds : DeleteUser(id)

SpecActive == Init /\ [][NextActive]_vars

\* UpdateDetails by the admin and by the owner, racing with each other and
\* with the admin's status updates on the same order.
NextDetails ==
    \/ \E p \in Procs : Begin(p, CreateOrderRequest("ORD-1", 2, "Widget", Null), Admin)
    \/ \E p \in Procs, cred \in Callers, t \in NewTitles, d \in NewDescriptions :
          Begin(p, UpdateOrderRequest(1, t, d), cred)
    \/ \E p \in Procs : Begin(p, UpdateStatusRequest(1, "shipped", Null), Admin)
    \/ CreateSteps(Procs) \/ UpdateSteps(Procs) \/ StatusSteps(Procs)
    \/ \E p \in Procs : Finish(p)

SpecDetails == Init /\ [][NextDetails]_vars

\* Accounts and their preference rows: an admin provisioned outside the
\* service (signup makes customers only) without a preference row, customers
\* signing up, two workers reading and upserting preferences.
InitAccounts ==
    /\ users = {User(1, "admin@x.io", "admin", TRUE)}
    /\ prefs = {}
    /\ orders = {}
    /\ history = {}
    /\ nextUserId = 2
    /\ nextOrderId = 1
    /\ nextHistId = 1
    /\ clock = 0
    /\ pc = [p \in Procs |-> "idle"]
    /\ req = [p \in Procs |-> NoReq]
    /\ sess = [p \in Procs |-> NoSession]
    /\ resp = [p \in Procs |-> NoResp]

\* The preference row of one user under two workers: first-time and repeated
\* Upserts, and reads.
PrefPayloads ==
    {NotificationPreference(NullId, FALSE, "sms", Null, "+1555", Null),
     NotificationPreference(NullId, TRUE, "email", "new@x.io", Null, Null)}

NextPrefs ==
    \/ \E p \in Procs, n \in PrefPayloads :
          Begin(p, UpsertRequest(n.enabled, n.channel, n.email, n.phone, n.push_token), Admin)
    \/ \E p \in Procs : Begin(p, GetPreferencesRequest, Admin)
    \/ \E p \in Procs : PrefsSelect(p)
    \/ \E p \in Procs : UpsertSelect(p)
    \/ \E p \in Procs : UpsertFlushInsert(p)
    \/ \E p \in Procs : UpsertFlushUpdate(p)
    \/ \E p \in Procs : Finish(p)

SpecPrefs == InitAccounts /\ [][NextPrefs]_vars

\* Signups racing on the same and on different emails, the signed-up users
\* reading and upserting their preferences.
SignedUp == {create_access_token(2, "customer"), create_access_token(3, "customer")}

NextSignup ==
    \/ \E p \in Procs, e \in Emails, r \in {Null, "admin"} :
          Begin(p, SignupRequest(e, r), NoCredentials)
    \/ \E p \in Procs, cred \in SignedUp :
          Begin(p, UpsertRequest(FALSE, "sms", Null, "+1555", Null), cred)
    \/ \E p \in Procs, cred \in SignedUp : Begin(p, GetPreferencesRequest, cred)
    \/ SignupSteps(Procs)
    \/ \E p \in Procs : PrefsSelect(p)
    \/ \E p \in Procs : UpsertSelect(p)
    \/ \E p \in Procs : UpsertFlushUpdate(p)
    \/ \E p \in Procs : Finish(p)

SpecSignup == InitAccounts /\ [][NextSignup]_vars

\* Tokens whose role claim agrees or disagrees with the stored role: one
\* worker, two users promoted and demoted outside the service while their
\* tokens stay valid.
Tokens == {create_access_token(id, r) : id \in {1, 2}, r \in UserRole}

NextRoles ==
    \/ \E p \in Gate, cred \in Tokens, u \in {1, 2} :
          Begin(p, CreateOrderRequest("ORD-1", u, "Widget", Null), cred)
    \/ \E p \in Gate, cred \in Tokens, id \in OrderIds :
          Begin(p, GetOrderRequest(id), cred)
    \/ \E p \in Gate, cred \in Tokens : Begin(p, ListOrdersRequest, cred)
    \/ \E p \in Gate, cred \in Tokens, id \in OrderIds :
          Begin(p, UpdateOrderRequest(id, "Gadget", Null), cred)
    \/ \E p \in Gate, cred \in Tokens, id \in OrderIds :
          Begin(p, DeleteOrderRequest(id), cred)
    \/ \E p \in Gate, cred \in Tokens, id \in OrderIds :
          Begin(p, UpdateStatusRequest(id, "shipped", Null), cred)
    \/ CreateSteps(Gate) \/ UpdateSteps(Gate) \/ DeleteSteps(Gate) \/ StatusSteps(Gate)
    \/ \E p \in Gate : GetSelectOrder(p)
    \/ \E p \in Gate : GetSelectHistory(p)
    \/ \E p \in Gate : ListSelect(p)
    \/ \E p \in Gate : Finish(p)
    \/ \E id \in {1, 2}, r \in UserRole : SetRole(id, r)

SpecRoles == Init /\ [][NextRoles]_vars

\* ------------------------------------------------------------------ properties
HistoryOf(order_id) == {h \in history : h.order_id = order_id}

\* the history row with the greatest (changed_at, id)
IsLatest(h, rows) == h \in rows /\ \A g \in rows : HistoryBefore(g, h)

\* C1: in every committed state, every order's current_status equals the
\* new_status of its history row with the greatest (changed_at, id).
C1_StatusIsLatestHistory ==
    \A o \in orders :
        \E h \in HistoryOf(o.id) :
            IsLatest(h, HistoryOf(o.id)) /\ o.current_status = h.new_status

C1_Witness ==
    \E o \in orders : \E h \in HistoryOf(o.id) :
        /\ h.old_status # Null
        /\ IsLatest(h, HistoryOf(o.id))
        /\ o.current_status = h.new_status

\* C2: UpdateStatus is atomic.  A step that changes the committed
\* current_status of an order also commits a history row of that order with
\* that new_status; a step that commits a history row recording a change
\* (old_status differs from new_status) leaves the order at that new_status;
\* a rolled-back request, failed at whatever statement, changes neither table;
\* and what another session reads never contains a pending row.
C2_StatusChangeHasRow ==
    \A o \in orders : \A n \in orders' :
        (o.id = n.id /\ o.current_status # n.current_status) =>
            \E h \in history' \ history :
                h.order_id = o.id /\ h.new_status = n.current_status

C2_RowHasStatusChange ==
    \A h \in history' \ history :
        (h.old_status # Null /\ h.old_status # h.new_status) =>
            \E n \in orders' : n.id = h.order_id /\ n.current_status = h.new_status

C2_RollbackKeepsNothing ==
    \A p \in Procs :
        (pc[p] = "rollback" /\ pc'[p] = "idle") => (orders' = orders /\ history' = history)

C2_NoDirtyRead ==
    \A p \in Procs : \A q \in Others(p) : \A h \in sess[p].ins_hist :
        h \notin VisibleHistory(q, h.order_id)

IsCreationEntry(h, order_id) ==
    /\ h.order_id = order_id
    /\ h.old_status = Null
    /\ h.new_status = "created"
    /\ h.changed_by_user_id = NullId

C3_HasCreationEntry ==
    \A o \in orders : \E h \in history : IsCreationEntry(h, o.id)

C3_CreateResponse ==
    \A p \in Procs :
        (req[p].kind = "create_order" /\ pc[p] = "commit") =>
            /\ resp[p].status = 201
            /\ \A o \in resp[p].order :
                 /\ o.current_status = "created"
                 /\ Cardinality(VisibleHistory(p, o.id)) = 1
            /\ Cardinality(resp[p].order) = 1

C3_SameTransaction ==
    \A n \in orders' :
        (~\E o \in orders : o.id = n.id) =>
            /\ n.current_status = "created"
            /\ \E h \in history' \ history :
                 /\ IsCreationEntry(h, n.id)
                 /\ {g \in history' : g.order_id = n.id} = {h}

\* C3: every committed order has its creation entry, committed with it, and
\* a successful Create answers created with exactly one history row.
C3_CreationEntry ==
    /\ [](C3_HasCreationEntry /\ C3_CreateResponse)
    /\ [][C3_SameTransaction]_vars

\* a Create about to commit beside an order that has been updated since
C3_Witness ==
    \E p \in Procs :
        /\ req[p].kind = "create_order"
        /\ pc[p] = "commit"
        /\ \E o \in orders : Cardinality(HistoryOf(o.id)) >= 2

\* C4: a caller whose stored role is customer never reads or changes an order
\* of another user: Get, GetByNumber and UpdateDetails on such an order end
\* Forbidden with the store unchanged, no response carries such an order, and
\* List answers exactly the caller's own orders.
OwnOrders(u) == {o \in orders : o.user_id = u.id}

Range(f) == {f[i] : i \in DOMAIN f}

C4_Forbidden ==
    \A p \in Procs : \A u \in sess[p].user :
        /\ u.role = "customer"
        /\ pc[p] \in {"get_select_order", "lookup_select_order", "update_select_order"}
        /\ pc'[p] # pc[p]
        /\ \E o \in orders \ OwnOrders(u) :
              IF pc[p] = "lookup_select_order"
              THEN o.order_number = req[p].order_number
              ELSE o.id = req[p].order_id
        => /\ pc'[p] = "rollback"
           /\ resp'[p].status = 403
           /\ sess'[p] = sess[p]
           /\ db' = db

C4_List ==
    \A p \in Procs : \A u \in sess[p].user :
        (u.role = "customer" /\ pc[p] = "list_select" /\ pc'[p] = "commit") =>
            (Range(resp'[p].list) = OwnOrders(u) /\ Len(resp'[p].list) = Cardinality(OwnOrders(u)))

C4_NothingForeign ==
    \A p \in Procs : \A u \in sess[p].user :
        u.role = "customer" =>
            /\ \A o \in resp[p].order \cup Range(resp[p].list) \cup sess[p].obj : o.user_id = u.id
            /\ \A o \in orders : o.user_id # u.id => sess[p].upd.id # o.id /\ o.id \notin sess[p].del

\* C4: a customer reads and changes own orders only: Forbidden on the
\* others, List exactly the own ones.
C4_OwnerScope ==
    /\ []C4_NothingForeign
    /\ [][C4_Forbidden /\ C4_List]_vars

\* the customer was refused an update of the admin's order, and owns one too
C4_Witness ==
    \E p \in Procs :
        /\ req[p].kind = "update_order"
        /\ req[p].cred = Customer
        /\ pc[p] = "rollback"
        /\ resp[p].status = 403
        /\ \E o \in orders : o.id = req[p].order_id /\ o.user_id = 1
        /\ \E o \in orders : o.user_id = 2

\* C5: no two committed orders share an order_number; a number held by a
\* pending INSERT is held by no committed order and by no other session; the
\* INSERT of a Create succeeds only when no committed order has the number,
\* and ends Conflict when one has; a Create that did not commit leaves no row.
C5_UniqueNumbers ==
    /\ \A a, b \in orders : a.order_number = b.order_number => a = b
    /\ \A p \in Procs : \A a \in sess[p].ins_order :
          /\ ~\E o \in orders : o.order_number = a.order_number
          /\ \A q \in Others(p) : \A b \in sess[q].ins_order : b.order_number # a.order_number

C5_SecondConflicts ==
    \A p \in Procs :
        (pc[p] = "create_flush_order" /\ pc'[p] # pc[p]) =>
            LET taken == \E o \in orders : o.order_number = req[p].order_number
                owned == \E u \in users : u.id = req[p].user_id
                failed == resp'[p].status = 500
            IN /\ (taken /\ ~failed) => (pc'[p] = "rollback" /\ resp'[p].status = 409)
               /\ (~taken /\ owned /\ ~failed) =>
                     (pc'[p] = "create_flush_history" /\ sess'[p].ins_order # {})
               /\ pc'[p] = "create_flush_history" => ~taken

C5_FailedLeavesNothing ==
    \A p \in Procs :
        (req[p].kind = "create_order" /\ pc[p] = "rollback" /\ pc'[p] = "idle") =>
            (orders' = orders /\ history' = history)

\* C5: of the Creates of one order_number one succeeds, the others end
\* Conflict and leave no row; committed order_numbers are unique.
C5_CreateConflict ==
    /\ []C5_UniqueNumbers
    /\ [][C5_SecondConflicts /\ C5_FailedLeavesNothing]_vars

\* the second Create of a number was refused while the first one's order stands
C5_Witness ==
    \E p \in Procs :
        /\ req[p].kind = "create_order"
        /\ pc[p] = "rollback"
        /\ resp[p].status = 409
        /\ \E o \in orders : o.order_number = req[p].order_number /\ req[p].user_id = 2

\* C6: the commit of a successful UpdateStatus(order, s, note) leaves the order
\* at current_status s and adds exactly one history row: old_status as read by
\* the request, new_status s, the acting admin, the note.
C6_Commit(p) ==
    /\ \E n \in orders' : n.id = req[p].order_id /\ n.current_status = req[p].new_status
    /\ \E h \in history' :
          /\ history' \ history = {h}
          /\ h.order_id = req[p].order_id
          /\ h.old_status = sess[p].old
          /\ h.new_status = req[p].new_status
          /\ h.note = req[p].note
          /\ \A a \in sess[p].user : h.changed_by_user_id = a.id

\* C6: a committed UpdateStatus leaves current_status = s and exactly one new
\* history row (old status as read, s, the admin, the note).
C6_StatusSet ==
    [][\A p \in Procs :
          (req[p].kind = "update_status" /\ pc[p] = "commit" /\ pc'[p] = "idle") =>
              C6_Commit(p)]_vars

\* C7: Create, Delete and UpdateStatus by an active user whose stored role is
\* not admin end Forbidden before the handler runs, whatever the target, and
\* the store is unchanged by the request.
NonAdmin(cred) ==
    /\ cred.valid
    /\ \E u \in users : u.id = cred.sub /\ u.is_active /\ u.role # "admin"

C7_Arrives ==
    \A p \in Procs :
        (pc[p] = "idle" /\ pc'[p] # "idle" /\ req'[p].kind \in AdminOnly
            /\ NonAdmin(req'[p].cred)) =>
                /\ pc'[p] = "rollback"
                /\ resp'[p].status = 403
                /\ resp'[p].detail = "Admin role required"
                /\ db' = db

C7_Finishes ==
    \A p \in Procs :
        (req[p].kind \in AdminOnly /\ resp[p].status = 403 /\ pc'[p] # pc[p]) =>
            (pc'[p] = "idle" /\ db' = db)

\* C7: Create, Delete and UpdateStatus by a non-admin end Forbidden at the
\* gate, the store unchanged.
C7_AdminOnly == [][C7_Arrives /\ C7_Finishes]_vars

\* the customer was refused the Delete of an order that exists
C7_Witness ==
    \E p \in Procs :
        /\ req[p].kind = "delete_order"
        /\ req[p].cred = Customer
        /\ resp[p].status = 403
        /\ \E o \in orders : o.id = req[p].order_id /\ o.user_id = 2

\* C8: a request that presents a valid token of a user who is deactivated or
\* deleted when the request arrives ends Unauthenticated before any handler
\* runs, on every bearer-protected endpoint, and the store is unchanged by it.
Inactive(cred) ==
    /\ cred.valid
    /\ \A u \in users : u.id = cred.sub => ~u.is_active

C8_Arrives ==
    \A p \in Procs :
        (pc[p] = "idle" /\ pc'[p] # "idle" /\ Inactive(req'[p].cred)) =>
            /\ pc'[p] = "rollback"
            /\ resp'[p].status = 401
            /\ sess'[p] = NoSession
            /\ db' = db

C8_Finishes ==
    \A p \in Procs :
        (resp[p].status = 401 /\ pc'[p] # pc[p]) => (pc'[p] = "idle" /\ db' = db)

\* C8: a valid token of a deactivated or deleted user ends Unauthenticated on
\* every endpoint, the store unchanged.
C8_ActiveChecked == [][C8_Arrives /\ C8_Finishes]_vars

\* the owner of an order, deactivated since, was refused its update
C8_Witness ==
    \E p \in Procs :
        /\ req[p].kind = "update_order"
        /\ req[p].cred = Customer
        /\ resp[p].status = 401
        /\ \E u \in users : u.id = 2 /\ ~u.is_active
        /\ \E o \in orders : o.id = req[p].order_id /\ o.user_id = 2

\* C9: GetByNumber answers what Get answers: the history of a successful
\* lookup is the order's history sorted ascending by (changed_at, id).
Sorted(items) ==
    \A i, j \in DOMAIN items : i < j => HistoryBefore(items[i], items[j])

\* C9: Get and GetByNumber answer the same history sequence, sorted
\* ascending by (changed_at, id).
C9_LookupSorted ==
    \A p \in Procs :
        (pc[p] = "commit" /\ req[p].kind \in {"get_order", "lookup_by_number"}) =>
            /\ Sorted(resp[p].history)
            /\ \A o \in resp[p].order :
                 resp[p].history = Items(OrderByChangedAtId(VisibleHistory(p, o.id)))

\* C10: the commit of a Delete removes the order and exactly the history rows
\* of that order, every other row of every table staying as it is; a Delete of
\* an id no order has ends NotFound, and changes nothing.
C10_Commit ==
    \A p \in Procs :
        (req[p].kind = "delete_order" /\ pc[p] = "commit" /\ pc'[p] = "idle") =>
            /\ orders' = {o \in orders : o.id # req[p].order_id}
            /\ history' = {h \in history : h.order_id # req[p].order_id}
            /\ users' = users
            /\ prefs' = prefs

C10_NotFound ==
    \A p \in Procs :
        /\ (pc[p] = "delete_select_order" /\ pc'[p] # pc[p]
                /\ ~\E o \in orders : o.id = req[p].order_id) =>
              (pc'[p] = "rollback" /\ resp'[p].status = 404 /\ db' = db)
        /\ (req[p].kind = "delete_order" /\ pc[p] = "rollback" /\ pc'[p] # pc[p]) =>
              (pc'[p] = "idle" /\ db' = db)

\* C10: Delete removes the order and exactly its history rows, nothing else;
\* Delete of a missing order ends NotFound and changes nothing.
C10_DeleteFrame == [][C10_Commit /\ C10_NotFound]_vars

\* a Delete about to commit: its order has two history rows, another order
\* with its own history stays
C10_Witness ==
    \E p \in Procs :
        /\ req[p].kind = "delete_order"
        /\ pc[p] = "commit"
        /\ Cardinality(HistoryOf(req[p].order_id)) >= 2
        /\ \E o \in orders : o.id # req[p].order_id /\ HistoryOf(o.id) # {}

\* C11: history is append-only.  No step of a request changes or removes a
\* committed history row, but the commit of the Delete of its order (the
\* cascade); outside the service, the removal of a user takes the user's
\* orders with their rows and nulls changed_by_user_id, and nothing else.
C11_AppendOnly ==
    [][\A h \in history :
          \/ h \in history'
          \/ /\ ~\E o \in orders' : o.id = h.order_id
             /\ \/ pc' = pc
                \/ \E p \in Procs : /\ req[p].kind = "delete_order"
                                    /\ req[p].order_id = h.order_id
                                    /\ pc[p] = "commit"
                                    /\ pc'[p] = "idle"
          \/ /\ pc' = pc
             /\ users' # users
             /\ [h EXCEPT !.changed_by_user_id = NullId] \in history']_vars

\* an UpdateStatus about to commit its row next to the rows the order has
C11_Witness ==
    \E p \in Procs :
        /\ req[p].kind = "update_status"
        /\ pc[p] = "commit"
        /\ sess[p].ins_hist # {}
        /\ HistoryOf(req[p].order_id) # {}

\* the columns UpdateDetails may write, on the order it names
Patched(o, n, r) ==
    /\ n.title # o.title => (o.id = r.order_id /\ r.title # Null /\ n.title = r.title)
    /\ n.description # o.description =>
          (o.id = r.order_id /\ r.description # Null /\ n.description = r.description)

C12_Commit ==
    \A p \in Procs :
        (req[p].kind = "update_order" /\ pc[p] = "commit" /\ pc'[p] = "idle") =>
            /\ history' = history
            /\ {n.id : n \in orders'} = {o.id : o \in orders}
            /\ \A o \in orders : \E n \in orders' :
                 /\ n.id = o.id
                 /\ n.user_id = o.user_id
                 /\ n.order_number = o.order_number
                 /\ n.current_status = o.current_status
                 /\ n.created_at = o.created_at
                 /\ Patched(o, n, req[p])

C12_Handler ==
    \A p \in Procs :
        (req[p].kind = "update_order" /\ pc[p] # "commit" /\ pc'[p] # pc[p]) => db' = db

\* C12: UpdateDetails is a partial patch with a fixed frame: its commit changes
\* title only to a supplied non-null title and description only to a supplied
\* non-null description, on the order it names, and leaves user_id,
\* order_number, current_status and every history row as they are, for the
\* admin and for the owner; no other step of the request writes anything.
C12_PartialPatch == [][C12_Commit /\ C12_Handler]_vars

\* the owner's patch about to commit on an order whose status another session
\* has changed since the patch loaded it
C12_Witness ==
    \E p \in Procs :
        /\ req[p].kind = "update_order"
        /\ req[p].cred = Customer
        /\ pc[p] = "commit"
        /\ sess[p].upd.id = req[p].order_id
        /\ \E o \in orders, l \in sess[p].obj :
              o.id = l.id /\ o.current_status # l.current_status

\* the caller's row as a successful Upsert(payload) is to leave it; a null
\* email keeps the stored one (as committed, or as the request read it)
Upserted(n, u, payload, kept) ==
    /\ n.user_id = u.id
    /\ n.enabled = payload.enabled
    /\ n.channel = payload.channel
    /\ n.phone = payload.phone
    /\ n.push_token = payload.push_token
    /\ n.email \in (IF payload.email # Null THEN {payload.email} ELSE kept)

C13_Commit(p) ==
    \E u \in sess[p].user, payload \in req[p].pref :
        LET before == {m \in prefs : m.user_id = u.id}
            kept == {m.email : m \in before \cup sess[p].pref} \cup
                    (IF before = {} THEN {Null} ELSE {})
        IN /\ \E n \in prefs' : Upserted(n, u, payload, kept)
           /\ Cardinality({n \in prefs' : n.user_id = u.id}) = 1
           /\ {n \in prefs' : n.user_id # u.id} = {m \in prefs : m.user_id # u.id}

\* C13: the commit of a successful Upsert leaves exactly one row for the
\* caller, holding the request's enabled, channel, phone and push_token (null
\* when omitted) and the request's email, or the stored email when the request
\* has none; the rows of other users stay as they are.
C13_UpsertReplaces ==
    [][\A p \in Procs :
          (req[p].kind = "upsert_preferences" /\ pc[p] = "commit" /\ pc'[p] = "idle") =>
              C13_Commit(p)]_vars

\* users that came through signup: users.id values drawn from the sequence
\* (the admin of InitAccounts holds id 1)
SignupUsers == {u \in users : u.id >= 2}

PrefsOf(u) == {n \in prefs : n.user_id = u.id}

C14_OnePreferenceRow ==
    /\ \A u \in SignupUsers : Cardinality(PrefsOf(u)) = 1
    /\ \A u \in SignupUsers : u.role = "customer"
    /\ \A a, b \in users : a.email = b.email => a = b
    /\ \A p \in Procs : \A u \in sess[p].user :
          u.id >= 2 =>
              /\ pc[p] # "upsert_flush_insert"
              /\ req[p].kind = "get_preferences" => resp[p].status # 404

C14_SignupCommit ==
    \A p \in Procs :
        (req[p].kind = "signup" /\ pc[p] = "commit" /\ pc'[p] = "idle") =>
            /\ resp[p].status = 201
            /\ \E u \in users' :
                 /\ users' \ users = {u}
                 /\ users \ users' = {}
                 /\ u.email = req[p].email
                 /\ u.role = "customer"
                 /\ u.is_active
                 /\ resp[p].user = {u}
                 /\ prefs' \ prefs = {NotificationPreference(u.id, TRUE, "email", u.email, Null, Null)}
                 /\ prefs \ prefs' = {}

C14_Registered ==
    \A p \in Procs :
        /\ (pc[p] = "signup_select" /\ pc'[p] # pc[p]
                /\ \E u \in users : u.email = req[p].email) =>
              (pc'[p] = "rollback" /\ resp'[p].status = 409 /\ db' = db)
        /\ (req[p].kind = "signup" /\ pc[p] # "commit" /\ pc'[p] # pc[p]) => db' = db

\* C14: the commit of a signup adds one active user with role customer,
\* whatever role was asked for, and exactly one preference row (enabled,
\* channel email, the user's email); every signed-up user has exactly one
\* preference row in every state, no Upsert of such a user inserts a row and
\* no Get preferences of such a user ends NotFound; a signup whose email is
\* registered ends Conflict, and no signup that did not commit creates a row.
C14_Signup ==
    /\ []C14_OnePreferenceRow
    /\ [][C14_SignupCommit /\ C14_Registered]_vars

\* a signup that asked for role admin about to commit, next to a signed-up
\* user who has upserted the preference row
C14_Witness ==
    \E p \in Procs :
        /\ req[p].kind = "signup"
        /\ req[p].role = "admin"
        /\ pc[p] = "commit"
        /\ \E u \in SignupUsers : \E n \in PrefsOf(u) : n.channel = "sms"

\* Success, NotFound, Forbidden, Unauthenticated, Conflict, ValidationError
Categorical == {200, 201, 204, 404, 403, 401, 409, 422}

\* C15: under every interleaving, a request that has ended has ended with one
\* of the six categorical outcomes, never with an unclassified failure.
C15_CategoricalOutcomes ==
    \A p \in Procs :
        pc[p] \in {"commit", "rollback"} => resp[p].status \in Categorical

Kinds ==
    {"create_order", "get_order", "lookup_by_number", "list_orders", "update_order",
     "delete_order", "update_status", "me", "get_preferences", "upsert_preferences"}

Stored(cred) == {u \in users : u.id = cred.sub}

\* the gate answers the same for two tokens that differ in the role claim
C16_ClaimIgnored ==
    \A kind \in Kinds, cred \in Tokens, r \in UserRole :
        Depends(kind, [cred EXCEPT !.role = r]) = Depends(kind, cred)

\* the role a handler decides on is the role stored when the request arrived
C16_StoredRole ==
    \A p \in Procs :
        (pc[p] = "idle" /\ pc'[p] # "idle") =>
            /\ pc'[p] # "rollback" => sess'[p].user = Stored(req'[p].cred)
            /\ (req'[p].kind \in AdminOnly /\ \E u \in Stored(req'[p].cred) : u.role # "admin") =>
                  (pc'[p] = "rollback" /\ resp'[p].status = 403 /\ db' = db)

\* a caller stored as customer is scoped to own orders, whatever the token says
C16_Scoped ==
    \A p \in Procs : \A u \in sess[p].user :
        u.role = "customer" =>
            /\ (/\ pc[p] \in {"get_select_order", "update_select_order"}
                /\ pc'[p] # pc[p]
                /\ \E o \in orders : o.id = req[p].order_id /\ o.user_id # u.id) =>
                  (pc'[p] = "rollback" /\ resp'[p].status = 403 /\ db' = db)
            /\ (pc[p] = "list_select" /\ pc'[p] = "commit") =>
                  Range(resp'[p].list) = OwnOrders(u)

\* C16: role-gated and owner-scoped decisions read the role stored for the
\* user when the request arrives, never the token's role claim: the gate
\* answers alike for tokens that differ in the claim only, a user stored as
\* customer is Forbidden on Create, Delete and UpdateStatus and scoped to own
\* orders on Get, List and UpdateDetails even with a token that says admin.
C16_RoleFromStore ==
    /\ []C16_ClaimIgnored
    /\ [][C16_StoredRole /\ C16_Scoped]_vars

\* user 1, demoted to customer, was refused the Delete of an existing order
\* on a token that still says admin
C16_Witness ==
    \E p \in Procs :
        /\ req[p].kind = "delete_order"
        /\ req[p].cred = create_access_token(1, "admin")
        /\ resp[p].status = 403
        /\ \E u \in users : u.id = 1 /\ u.role = "customer"
        /\ \E o \in orders : o.id = req[p].order_id

C17_OwnerExists ==
    \A o \in orders : \E u \in users : u.id = o.user_id

C17_ConflictMeansTaken ==
    \A p \in Procs :
        (pc[p] = "create_flush_order" /\ resp'[p].status = 409) =>
            \E o \in orders : o.order_number = req[p].order_number

\* C17: a Create ends Conflict only when an order with its order_number
\* exists, in particular not when its user_id refers to no user; and every
\* committed order's user_id refers to an existing user.
C17_ConflictOnlyDuplicate ==
    /\ []C17_OwnerExists
    /\ [][C17_ConflictMeansTaken]_vars

====
